---- MODULE Spec2Model ----
(***************************************************************************)
(* Model of the lite-api company scrapper:                                 *)
(*   - BrowserPool (scrapper.py): a bounded FIFO queue of browsers shared  *)
(*     by concurrent client tasks;                                         *)
(*   - information_scrapper (scrapper.py): three worker tasks and the      *)
(*     collecting loop of the calling thread;                              *)
(*   - find_country_of_origin (functions.py): the four-stage resolution;   *)
(*   - get_information (main.py): the request handler with cache and store;*)
(*   - the parsing helpers of functions.py, each as one call on its inputs. *)
(* Each part has its own specification over the shared variable tuple; the *)
(* variables of the other parts stay at their idle values.                 *)
(***************************************************************************)
EXTENDS Integers, Sequences, FiniteSets, TLC

VARIABLES
    \* ---- BrowserPool and its client tasks
    size,       \* the size the pool was built with (Queue maxsize)
    pool,       \* self.pool: the queue of idle browsers, head first
    held,       \* held[t]: the browsers task t got and has not passed to release_browser
    ppc,        \* ppc[t]: idle | waiting (inside get_browser) | holding | failed
    rounds,     \* rounds[t]: get_browser calls task t has made
    served,     \* get_browser calls that have returned
    \* ---- one call of find_country_of_origin
    cpc,        \* position: stage1 | launch | search | stage2 | stage3 | stage4 | done
    c_info,     \* the company_info argument
    c_allow,    \* the african_countries argument (a list)
    full_text,  \* the lower-cased text of the search results, as a list of words
    cdrv,       \* the function's own driver: none | open | quit
    csearched,  \* whether the search query was sent
    cstages,    \* the stages run so far, each with what it produced
    cret,       \* [raised, value]: how the call ended (value "" until it returns)
    \* ---- one call of information_scrapper and its three worker tasks
    spc,        \* the calling thread: start | wait_wiki | wait_stats | wait_country | returned | raised
    local_pool, \* whether the call builds its own BrowserPool (none was passed in)
    bpool,      \* the BrowserPool the call uses: none | open | closed
    bsize,      \* the size that pool was built with (0 while there is none)
    tpc,        \* tpc[k]: position of the task submitted under key k
    tres,       \* tres[k]: the future of task k: pending | raised | returned (with its value)
    drv,        \* drv[d]: the driver a task creates for itself: none | open | quit
    cargs,      \* the company_info argument the country task was submitted with
    sloc,       \* the locals of get_company_stats
    information,\* the dict the calling thread builds
    ret,        \* the dict information_scrapper returned (empty until it returns)
    \* ---- the get_information handler, its cache and its collection
    cache,      \* the TTLCache: key -> document
    store,      \* the companies collection: the documents inserted
    resp,       \* the last response: [status, error, body]
    mcountry,   \* how country resolution ended in the last request:
                \* not_called | raised | empty | found
    nreq,       \* requests handled
    mreq,       \* the company path parameter of the last request
    \* ---- one call of a parsing helper of functions.py
    fcall,      \* the helper called (none outside these calls)
    fargs,      \* its arguments
    fresult     \* how the call ended: pending | returned (with its value) | raised

poolVars == <<size, pool, held, ppc, rounds, served>>
countryVars == <<cpc, c_info, c_allow, full_text, cdrv, csearched, cstages, cret>>
scrapeVars == <<spc, local_pool, bpool, bsize, tpc, tres, drv, cargs, sloc, information, ret>>

mainVars == <<cache, store, resp, mcountry, nreq, mreq>>
funcVars == <<fcall, fargs, fresult>>

nonPoolVars == <<countryVars, scrapeVars, mainVars, funcVars>>
nonCountryVars == <<poolVars, scrapeVars, mainVars, funcVars>>
nonScrapeVars == <<poolVars, countryVars, mainVars, funcVars>>
nonMainVars == <<poolVars, countryVars, scrapeVars, funcVars>>
nonFuncVars == <<poolVars, countryVars, scrapeVars, mainVars>>

vars == <<poolVars, countryVars, scrapeVars, mainVars, funcVars>>

(***************************************************************************)
(* Bounds and program constants                                            *)
(***************************************************************************)
MaxPoolSize == 2
MaxRounds == 2
NumTasks == 3
DefaultPoolSize == 3

MaxSnippets == 2
MaxRequests == 3

Tasks == 1..NumTasks

Range(f) == {f[i] : i \in DOMAIN f}

\* {} as a dict
EmptyDict == <<>>

(***************************************************************************)
(* BrowserPool                                                             *)
(***************************************************************************)
\* __init__: a Queue(maxsize=n) filled with n freshly created browsers
BrowserPool(n) == [i \in 1..n |-> i]

\* a get_browser that hands out the head of the queue without taking it out
get_browser_peek(q) == [browser |-> Head(q), pool |-> q]

\* get_browser: self.pool.get() takes the head of the queue (blocks while empty)
get_browser(q) == [browser |-> Head(q), pool |-> Tail(q)]

\* a release_browser that resets the browser and forgets to put it back
release_browser_noput(q, b, resetOk) == [pool |-> q, raised |-> ~resetOk]

\* release_browser: browser.get("about:blank") and then self.pool.put(browser);
\* an exception of the reset step leaves the function before the put
release_browser(q, b, resetOk) ==
    IF resetOk THEN [pool |-> Append(q, b), raised |-> FALSE]
               ELSE [pool |-> q, raised |-> TRUE]

PoolIdle ==
    /\ size = 0
    /\ pool = <<>>
    /\ held = [t \in Tasks |-> {}]
    /\ ppc = [t \in Tasks |-> "idle"]
    /\ rounds = [t \in Tasks |-> 0]
    /\ served = 0

CountryIdle ==
    /\ cpc = "idle"
    /\ c_info = EmptyDict
    /\ c_allow = <<>>
    /\ full_text = <<>>
    /\ cdrv = "none"
    /\ csearched = FALSE
    /\ cstages = <<>>
    /\ cret = [raised |-> FALSE, value |-> ""]

TaskKeys == {"wiki", "stats", "country"}
Drivers == {"wiki", "stats", "investors", "country"}

ScrapeIdle ==
    /\ spc = "idle"
    /\ local_pool = FALSE
    /\ bpool = "none"
    /\ bsize = 0
    /\ tpc = [k \in TaskKeys |-> "unsubmitted"]
    /\ tres = [k \in TaskKeys |-> [status |-> "pending"]]
    /\ drv = [d \in Drivers |-> "none"]
    /\ cargs = EmptyDict
    /\ sloc = EmptyDict
    /\ information = EmptyDict
    /\ ret = EmptyDict

NoResponse == [status |-> 0, error |-> FALSE, body |-> EmptyDict]

MainIdle ==
    /\ cache = EmptyDict
    /\ store = {}
    /\ resp = NoResponse
    /\ mcountry = "not_called"
    /\ nreq = 0
    /\ mreq = ""

FuncIdle ==
    /\ fcall = "none"
    /\ fargs = EmptyDict
    /\ fresult = [status |-> "pending"]

PoolInit ==
    /\ CountryIdle
    /\ ScrapeIdle
    /\ MainIdle
    /\ FuncIdle
    /\ size \in 1..MaxPoolSize
    /\ pool = BrowserPool(size)
    /\ held = [t \in Tasks |-> {}]
    /\ ppc = [t \in Tasks |-> "idle"]
    /\ rounds = [t \in Tasks |-> 0]
    /\ served = 0

\* a task calls get_browser and is now inside Queue.get
CallGet(t) ==
    /\ ppc[t] = "idle"
    /\ rounds[t] < MaxRounds
    /\ ppc' = [ppc EXCEPT ![t] = "waiting"]
    /\ rounds' = [rounds EXCEPT ![t] = @ + 1]
    /\ UNCHANGED <<size, pool, held, served, nonPoolVars>>

\* Queue.get returns: only when the queue is not empty
GetReturn(t) ==
    /\ ppc[t] = "waiting"
    /\ pool # <<>>
    /\ LET r == get_browser(pool) IN
        /\ pool' = r.pool
        /\ held' = [held EXCEPT ![t] = @ \cup {r.browser}]
    /\ ppc' = [ppc EXCEPT ![t] = "holding"]
    /\ served' = served + 1
    /\ UNCHANGED <<size, rounds, nonPoolVars>>

\* a holder calls release_browser(b); Queue.put would block on a full queue
Release(t) ==
    /\ ppc[t] = "holding"
    /\ Len(pool) < size
    /\ \E b \in held[t], resetOk \in BOOLEAN :
        LET r == release_browser(pool, b, resetOk) IN
        /\ pool' = r.pool
        /\ held' = [held EXCEPT ![t] = @ \ {b}]
        /\ ppc' = [ppc EXCEPT ![t] = IF r.raised THEN "failed" ELSE "idle"]
    /\ UNCHANGED <<size, rounds, served, nonPoolVars>>

PoolNext == \E t \in Tasks : CallGet(t) \/ GetReturn(t) \/ Release(t)

PoolSpec == PoolInit /\ [][PoolNext]_vars

\* under the scheduling of queue.Queue: put() notifies a getter blocked on an
\* empty queue, so a get that can return does not stay blocked forever
PoolLiveSpec == PoolSpec /\ WF_vars(\E t \in Tasks : GetReturn(t))

RECURSIVE SumHeld(_)
SumHeld(ts) ==
    IF ts = {} THEN 0
    ELSE LET t == CHOOSE x \in ts : TRUE
         IN Cardinality(held[t]) + SumHeld(ts \ {t})

\* browsers obtained by get_browser and not yet passed to release_browser
CheckedOut == SumHeld(Tasks)

InPool(b) == \E i \in 1..Len(pool) : pool[i] = b

\* C1: for a pool built with size N, the number of browsers checked out
\* (obtained by get_browser and not yet released) never exceeds N.
C1_CheckedOutAtMostSize == CheckedOut <= size

\* the pool is exhausted (N browsers out) while another task is blocked in get_browser
C1_Witness ==
    /\ CheckedOut = size
    /\ \E t \in Tasks : ppc[t] = "waiting"

\* C2: a browser is held by at most one task at a time: while a task holds b,
\* no other task holds b and b is not in the queue to be handed out.
C2_ExclusiveHolder ==
    /\ \A t1 \in Tasks, t2 \in Tasks : t1 # t2 => held[t1] \cap held[t2] = {}
    /\ \A t \in Tasks : \A b \in held[t] : ~InPool(b)

\* two tasks hold browsers at once after at least one browser went through a
\* release and was handed out again
C2_Witness ==
    /\ served > size
    /\ \E t1 \in Tasks, t2 \in Tasks :
        t1 # t2 /\ held[t1] # {} /\ held[t2] # {}

ReleaseCall(t) == ppc[t] = "holding" /\ ppc'[t] # "holding"
ReleaseReturned(t) == ppc[t] = "holding" /\ ppc'[t] = "idle"

\* C3 as stated: every call to release_browser makes a browser available,
\* i.e. every release step adds one browser to the queue.
C3_EveryReleaseRefills ==
    [][\A t \in Tasks : ReleaseCall(t) => Len(pool') = Len(pool) + 1]_vars

\* C3 amended: every call to release_browser whose reset step succeeds (the call
\* returns) puts the released browser at the tail of the queue; and whenever a
\* task is blocked in get_browser while the queue is not empty, a blocked
\* get_browser call returns.
C3_ReleaseThenProceed ==
    /\ [][\A t \in Tasks : ReleaseReturned(t) =>
            /\ Len(pool') = Len(pool) + 1
            /\ pool'[Len(pool')] \in held[t] \ held'[t]]_vars
    /\ \A n \in 0..(NumTasks * MaxRounds) :
        ((\E t \in Tasks : ppc[t] = "waiting") /\ pool # <<>> /\ served = n)
            ~> (served > n)

\* a get_browser call was served from a released browser while another task
\* was still holding one
C3_Witness ==
    /\ served > size
    /\ \E t \in Tasks : ppc[t] = "holding"
    /\ \E t \in Tasks : ppc[t] = "idle" /\ rounds[t] > 0

\* C12: when the reset step of release_browser fails, so that the browser is
\* not put back, the failure stays inside release_browser: the call returns
\* to the releasing task, which holds the browser no longer.
C12_ResetFailureAbsorbed ==
    [][\A t \in Tasks : (ReleaseCall(t) /\ pool' = pool) =>
            (ppc'[t] = "idle" /\ held'[t] # held[t])]_vars

(***************************************************************************)
(* find_country_of_origin                                                  *)
(*                                                                         *)
(* A text is a list of lower-case words. \bword\b matches a word of the    *)
(* text; the stage-4 pattern, whose context group is optional, also        *)
(* matches a word made of a context word glued to the country ("akenya").  *)
(***************************************************************************)
\* the african_countries lists the function is called with
AllowLists == { <<"Nigeria", "Kenya", "Congo">>, <<"Kenya", "Nigeria">>, <<"Kenya">> }

\* the african_demonyms dict, in insertion order: <<country, demonym>>
african_demonyms ==
    << <<"Nigeria", "Nigerian">>, <<"Kenya", "Kenyan">>,
       <<"Congo", "Congolese">>, <<"DR Congo", "Congolese">> >>

\* str.lower()
Lower(w) ==
    CASE w = "Nigeria" -> "nigeria"
      [] w = "Kenya" -> "kenya"
      [] w = "Congo" -> "congo"
      [] w = "DR Congo" -> "dr congo"
      [] w = "France" -> "france"
      [] w = "Nigerian" -> "nigerian"
      [] w = "Kenyan" -> "kenyan"
      [] w = "Congolese" -> "congolese"
      [] w = "Andela" -> "andela"
      [] w = "Flutterwave" -> "flutterwave"
      [] OTHER -> w

\* the text of one search result (a div of class "result")
Snippets ==
    { <<"nigeria">>, <<"kenya", "kenya">>, <<"kenya", "nigeria">>,
      <<"nigerian", "bank">>, <<"congolese">>, <<"akenya">>, <<"bank">> }

RECURSIVE SeqsUpTo(_, _)
SeqsUpTo(S, n) ==
    IF n = 0 THEN {<<>>}
    ELSE LET shorter == SeqsUpTo(S, n - 1)
         IN shorter \cup {Append(q, x) : q \in shorter, x \in S}

\* the result lists a search page can hold
ResultLists == SeqsUpTo(Snippets, MaxSnippets)

\* " ".join(set(el.text.strip() for el in elements)).lower(): equal snippets
\* collapse to one; the words of the distinct snippets follow each other.
\* Nothing below depends on the order in which the set is iterated.
RECURSIVE JoinDistinct(_, _)
JoinDistinct(elements, seen) ==
    IF elements = <<>> THEN <<>>
    ELSE IF Head(elements) \in seen THEN JoinDistinct(Tail(elements), seen)
    ELSE Head(elements) \o JoinDistinct(Tail(elements), seen \cup {Head(elements)})

\* the company_info dicts the function is called with
Infos ==
    { EmptyDict,
      [headquarters |-> "Lagos, Nigeria"],
      [country |-> "Kenya"],
      [headquarters |-> "Paris, France", country |-> "Nigeria"],
      [headquarters |-> "Paris, France and Lagos, Nigeria"],
      [headquarters |-> "Remote", founded |-> "2014"] }

\* country_named_entity_recognition.find_countries: the countries recognised
\* in a value, in order of appearance
find_countries(value) ==
    CASE value = "Lagos, Nigeria" -> <<"Nigeria">>
      [] value = "Nigeria" -> <<"Nigeria">>
      [] value = "Kenya" -> <<"Kenya">>
      [] value = "Paris, France" -> <<"France">>
      [] value = "Paris, France and Lagos, Nigeria" -> <<"France", "Nigeria">>
      [] OTHER -> <<>>

\* what one marker of stage 1 yields: the first recognised country, if allow-listed
MarkerCountry(marker, company_info, african_countries) ==
    IF marker \in DOMAIN company_info
    THEN LET result == find_countries(company_info[marker])
         IN IF result # <<>> /\ result[1] \in Range(african_countries)
            THEN result[1] ELSE ""
    ELSE ""

\* a stage 1 that looks at the "country" field only
Stage1_CountryFieldOnly(company_info, african_countries) ==
    MarkerCountry("country", company_info, african_countries)

\* stage 1: the loop over country_markers = ["headquarters", "country"]
Stage1(company_info, african_countries) ==
    LET hq == MarkerCountry("headquarters", company_info, african_countries)
    IN IF hq # "" THEN hq
       ELSE MarkerCountry("country", company_info, african_countries)

\* len(re.findall(rf"\b{word}\b", text))
CountWord(text, word) == Cardinality({i \in DOMAIN text : text[i] = word})

\* str.lower() on a text
LowerText(text) == [i \in DOMAIN text |-> Lower(text[i])]

\* a choice of the first country of the list that is mentioned at all
first_mentioned_country(text, african_countries) ==
    LET n(i) == CountWord(LowerText(text), Lower(african_countries[i]))
        counted == {i \in DOMAIN african_countries : n(i) > 0}
    IN IF counted = {} THEN ""
       ELSE african_countries[CHOOSE i \in counted : \A j \in counted : i <= j]

\* extract_most_mentioned_country: the text is lower-cased, then a Counter
\* over the countries that are mentioned, in list order; most_common(1) is the first entry with the
\* highest count
extract_most_mentioned_country(text, african_countries) ==
    LET n(i) == CountWord(LowerText(text), Lower(african_countries[i]))
        counted == {i \in DOMAIN african_countries : n(i) > 0}
    IN IF counted = {} THEN ""
       ELSE LET best == CHOOSE i \in counted :
                    \A j \in counted : n(j) < n(i) \/ (n(j) = n(i) /\ i <= j)
            IN african_countries[best]

\* stage 2: the most mentioned country, returned if it is in the list
Stage2(text, african_countries) ==
    LET country == extract_most_mentioned_country(text, african_countries)
    IN IF country \in Range(african_countries) THEN country ELSE ""

\* reversed_map = {v.lower(): k for k, v in african_demonyms.items()}: a later
\* country with the same demonym replaces an earlier one; "" stands for None
ReversedGet(demonyms, d) ==
    LET js == {j \in DOMAIN demonyms : Lower(demonyms[j][2]) = d}
    IN IF js = {} THEN ""
       ELSE demonyms[CHOOSE j \in js : \A k \in js : k <= j][1]

\* a stage 3 that returns the country of a demonym without looking at the list
Stage3_Unchecked(text, african_countries, demonyms) ==
    LET hits == {i \in DOMAIN demonyms : Lower(demonyms[i][2]) \in Range(text)}
    IN IF hits = {} THEN ""
       ELSE ReversedGet(demonyms, Lower(demonyms[CHOOSE i \in hits : \A k \in hits : i <= k][2]))

\* stage 3: the first demonym found in the text whose country is in the list
Stage3(text, african_countries, demonyms) ==
    LET hits == {i \in DOMAIN demonyms :
                    /\ Lower(demonyms[i][2]) \in Range(text)
                    /\ ReversedGet(demonyms, Lower(demonyms[i][2])) \in Range(african_countries)}
    IN IF hits = {} THEN ""
       ELSE ReversedGet(demonyms, Lower(demonyms[CHOOSE i \in hits : \A k \in hits : i <= k][2]))

\* the stage-4 pattern \b(?:in|from|based in|...|a[n]?|an)?\s*country\b on one
\* word: the country itself, or a one-word context glued in front of it
ContextMatch(tok, word) ==
    \/ tok = word
    \/ \E prefix \in {"in", "from", "a", "an"} : tok = prefix \o word

\* stage 4: the first country of the list whose pattern matches the text
Stage4(text, african_countries) ==
    LET hits == {i \in DOMAIN african_countries :
                    \E k \in DOMAIN text : ContextMatch(text[k], Lower(african_countries[i]))}
    IN IF hits = {} THEN ""
       ELSE african_countries[CHOOSE i \in hits : \A k \in hits : i <= k]

\* stages 2 to 4 on the text of the search page
ResolveFromText(text, african_countries, demonyms) ==
    IF Stage2(text, african_countries) # "" THEN Stage2(text, african_countries)
    ELSE IF Stage3(text, african_countries, demonyms) # ""
         THEN Stage3(text, african_countries, demonyms)
    ELSE Stage4(text, african_countries)

CountryInit ==
    /\ PoolIdle
    /\ ScrapeIdle
    /\ MainIdle
    /\ FuncIdle
    /\ cpc = "stage1"
    /\ c_info \in Infos
    /\ c_allow \in AllowLists
    /\ full_text = <<>>
    /\ cdrv = "none"
    /\ csearched = FALSE
    /\ cstages = <<>>
    /\ cret = [raised |-> FALSE, value |-> ""]

Ran(stage, result) == Append(cstages, [stage |-> stage, result |-> result])

\* lines 135-145: the structured fields
FC_Stage1 ==
    /\ cpc = "stage1"
    /\ LET r == Stage1(c_info, c_allow) IN
        /\ cstages' = Ran(1, r)
        /\ IF r # ""
           THEN cpc' = "done" /\ cret' = [raised |-> FALSE, value |-> r]
           ELSE cpc' = "launch" /\ UNCHANGED cret
    /\ UNCHANGED <<c_info, c_allow, full_text, cdrv, csearched, nonCountryVars>>

\* lines 148-162: uc.Chrome(options) outside the try; its exception leaves the function
FC_Launch ==
    /\ cpc = "launch"
    /\ \E ok \in BOOLEAN :
        IF ok
        THEN cdrv' = "open" /\ cpc' = "search" /\ UNCHANGED cret
        ELSE cdrv' = "none" /\ cpc' = "done" /\ cret' = [raised |-> TRUE, value |-> ""]
    /\ UNCHANGED <<c_info, c_allow, full_text, csearched, cstages, nonCountryVars>>

\* lines 165-180: load the search page, send the query, read the results and
\* quit the driver; an exception (before or after the query was sent) goes to
\* the handler of lines 198-203, which quits the driver, and "" is returned
FC_Search ==
    /\ cpc = "search"
    /\ \/ \E elements \in ResultLists :
            /\ full_text' = JoinDistinct(elements, {})
            /\ csearched' = TRUE
            /\ cpc' = "stage2"
            /\ UNCHANGED cret
       \/ \E sent \in BOOLEAN :
            /\ csearched' = sent
            /\ cpc' = "done"
            /\ cret' = [raised |-> FALSE, value |-> ""]
            /\ UNCHANGED full_text
    /\ cdrv' = "quit"
    /\ UNCHANGED <<c_info, c_allow, cstages, nonCountryVars>>

\* lines 182-184
FC_Stage2 ==
    /\ cpc = "stage2"
    /\ LET r == Stage2(full_text, c_allow) IN
        /\ cstages' = Ran(2, r)
        /\ IF r # ""
           THEN cpc' = "done" /\ cret' = [raised |-> FALSE, value |-> r]
           ELSE cpc' = "stage3" /\ UNCHANGED cret
    /\ UNCHANGED <<c_info, c_allow, full_text, cdrv, csearched, nonCountryVars>>

\* lines 186-191
FC_Stage3 ==
    /\ cpc = "stage3"
    /\ LET r == Stage3(full_text, c_allow, african_demonyms) IN
        /\ cstages' = Ran(3, r)
        /\ IF r # ""
           THEN cpc' = "done" /\ cret' = [raised |-> FALSE, value |-> r]
           ELSE cpc' = "stage4" /\ UNCHANGED cret
    /\ UNCHANGED <<c_info, c_allow, full_text, cdrv, csearched, nonCountryVars>>

\* lines 193-196 and the return "" of line 205
FC_Stage4 ==
    /\ cpc = "stage4"
    /\ LET r == Stage4(full_text, c_allow) IN
        /\ cstages' = Ran(4, r)
        /\ cpc' = "done"
        /\ cret' = [raised |-> FALSE, value |-> r]
    /\ UNCHANGED <<c_info, c_allow, full_text, cdrv, csearched, nonCountryVars>>

CountryNext ==
    \/ FC_Stage1
    \/ FC_Launch
    \/ FC_Search
    \/ FC_Stage2
    \/ FC_Stage3
    \/ FC_Stage4

CountrySpec == CountryInit /\ [][CountryNext]_vars

StageMarkers == {"headquarters", "country"}

\* company_info has a headquarters or country field whose first recognised
\* country is in the list
FieldResolves ==
    \E m \in StageMarkers :
        /\ m \in DOMAIN c_info
        /\ find_countries(c_info[m]) # <<>>
        /\ find_countries(c_info[m])[1] \in Range(c_allow)

C9_ReturnsAllowListedOrEmpty ==
    (cpc = "done" /\ ~cret.raised) =>
        (cret.value = "" \/ cret.value \in Range(c_allow))

\* a call that went through all four stages on a text holding the demonym of a
\* country that is not in the list
C9_Witness ==
    /\ cpc = "done"
    /\ Len(cstages) = 4
    /\ "nigerian" \in Range(full_text)
    /\ "Nigeria" \notin Range(c_allow)

(***************************************************************************)
(* information_scrapper and the three tasks it submits                     *)
(***************************************************************************)
\* the company argument
company == "andela"

\* the african_countries list imported from the data module
african_countries == <<"Nigeria", "Kenya", "Congo">>

\* dict.update
Update(d, e) ==
    [k \in DOMAIN d \cup DOMAIN e |-> IF k \in DOMAIN e THEN e[k] ELSE d[k]]

\* x or {}
OrEmpty(x) == IF DOMAIN x = {} THEN EmptyDict ELSE x

Raised == [status |-> "raised"]
Returned(v) == [status |-> "returned", value |-> v]

\* what get_wiki_link can return: (company_name, company_info, new_dsc); the
\* name falls back to the argument, the infobox and the paragraph may be absent
WikiValues ==
    { [name |-> "Andela", info |-> [headquarters |-> "Lagos, Nigeria"],
       desc |-> "Andela is a company"],
      [name |-> company, info |-> EmptyDict, desc |-> ""] }

\* a table as extract_table_data returns it
SampleTable == [Name |-> <<"A", "B">>]
\* the sections extract_company_details finds in the list
SampleDetails == [employees |-> "1200"]
SampleIndustry == "HRTech"
\* the counts extract_investor_no can draw from a results page
InvestorCounts == {0, 12}

ScrapeInit ==
    /\ PoolIdle
    /\ CountryIdle
    /\ MainIdle
    /\ FuncIdle
    /\ spc = "start"
    /\ local_pool \in BOOLEAN
    /\ bpool = IF local_pool THEN "none" ELSE "open"
    /\ bsize \in (IF local_pool THEN {0} ELSE 1..MaxPoolSize)
    /\ tpc = [k \in TaskKeys |-> "unsubmitted"]
    /\ tres = [k \in TaskKeys |-> [status |-> "pending"]]
    /\ drv = [d \in Drivers |-> "none"]
    /\ cargs = EmptyDict
    /\ sloc = EmptyDict
    /\ information = EmptyDict
    /\ ret = EmptyDict

\* the task under key k ends: its future holds what it raised or returned
EndTask(k, result) ==
    /\ tpc' = [tpc EXCEPT ![k] = "done"]
    /\ tres' = [tres EXCEPT ![k] = result]

\* lines 63-85: build a pool when none was passed (BrowserPool() raising leaves
\* the function before the try), then submit the three tasks; the country task
\* is submitted with the literal {} as company_info
IS_Submit ==
    /\ spc = "start"
    /\ \E created \in BOOLEAN :
        IF local_pool /\ ~created
        THEN /\ spc' = "raised"
             /\ UNCHANGED <<bpool, bsize, tpc, cargs, information>>
        ELSE /\ bpool' = "open"
             /\ bsize' = IF local_pool THEN DefaultPoolSize ELSE bsize
             /\ information' = [company |-> company]
             /\ tpc' = [k \in TaskKeys |-> "queued"]
             /\ cargs' = EmptyDict
             /\ spc' = "wait_wiki"
    /\ UNCHANGED <<local_pool, tres, drv, sloc, ret, nonScrapeVars>>

\* ---- get_wiki_link
\* lines 501-515: the driver is created outside the try
W_Launch ==
    /\ tpc["wiki"] = "queued"
    /\ \E ok \in BOOLEAN :
        IF ok
        THEN /\ drv' = [drv EXCEPT !["wiki"] = "open"]
             /\ tpc' = [tpc EXCEPT !["wiki"] = "search"]
             /\ UNCHANGED tres
        ELSE EndTask("wiki", Raised) /\ UNCHANGED drv
    /\ UNCHANGED <<spc, local_pool, bpool, bsize, cargs, sloc, information, ret, nonScrapeVars>>

\* lines 517-531: the search; driver.quit() is its last statement, and the
\* handler of lines 600-603 re-raises without quitting the driver
W_Search ==
    /\ tpc["wiki"] = "search"
    /\ \E ok \in BOOLEAN :
        IF ok
        THEN /\ drv' = [drv EXCEPT !["wiki"] = "quit"]
             /\ tpc' = [tpc EXCEPT !["wiki"] = "parse"]
             /\ UNCHANGED tres
        ELSE EndTask("wiki", Raised) /\ UNCHANGED drv
    /\ UNCHANGED <<spc, local_pool, bpool, bsize, cargs, sloc, information, ret, nonScrapeVars>>

\* lines 532-603: extract_link, requests.get, the parse and the company check
\* either raise or give the tuple
W_Parse ==
    /\ tpc["wiki"] = "parse"
    /\ \/ EndTask("wiki", Raised)
       \/ \E v \in WikiValues : EndTask("wiki", Returned(v))
    /\ UNCHANGED <<spc, local_pool, bpool, bsize, drv, cargs, sloc, information, ret, nonScrapeVars>>

\* ---- get_company_stats
\* lines 384-398: the driver is created outside the try
S_Launch ==
    /\ tpc["stats"] = "queued"
    /\ \E ok \in BOOLEAN :
        IF ok
        THEN /\ drv' = [drv EXCEPT !["stats"] = "open"]
             /\ tpc' = [tpc EXCEPT !["stats"] = "fetch"]
             /\ UNCHANGED tres
        ELSE EndTask("stats", Raised) /\ UNCHANGED drv
    /\ UNCHANGED <<spc, local_pool, bpool, bsize, cargs, sloc, information, ret, nonScrapeVars>>

\* lines 400-437: search, extract_link, load the page; an exception is printed
\* and grow_soup stays unbound
S_Fetch ==
    /\ tpc["stats"] = "fetch"
    /\ \E ok \in BOOLEAN : sloc' = [grow_soup |-> ok]
    /\ tpc' = [tpc EXCEPT !["stats"] = "blocks"]
    /\ UNCHANGED <<spc, local_pool, bpool, bsize, tres, drv, cargs, information, ret, nonScrapeVars>>

\* lines 439-473: four blocks, each in its own try; a block that raises (every
\* block does when grow_soup is unbound) leaves its default
S_Blocks ==
    /\ tpc["stats"] = "blocks"
    /\ \E i \in BOOLEAN, c \in BOOLEAN, f \in BOOLEAN, l \in BOOLEAN :
        sloc' = [grow_soup |-> sloc.grow_soup,
                 industry |-> IF sloc.grow_soup /\ i THEN SampleIndustry ELSE "",
                 competitors |-> IF sloc.grow_soup /\ c THEN SampleTable ELSE EmptyDict,
                 funding |-> IF sloc.grow_soup /\ f THEN SampleTable ELSE EmptyDict,
                 details |-> IF sloc.grow_soup /\ l THEN SampleDetails ELSE EmptyDict]
    /\ tpc' = [tpc EXCEPT !["stats"] = "inv_launch"]
    /\ UNCHANGED <<spc, local_pool, bpool, bsize, tres, drv, cargs, information, ret, nonScrapeVars>>

\* line 474 into extract_investor_no, lines 293-307: its driver is created
\* outside its try, so this exception leaves get_company_stats too
S_InvLaunch ==
    /\ tpc["stats"] = "inv_launch"
    /\ \E ok \in BOOLEAN :
        IF ok
        THEN /\ drv' = [drv EXCEPT !["investors"] = "open"]
             /\ tpc' = [tpc EXCEPT !["stats"] = "inv_search"]
             /\ UNCHANGED tres
        ELSE EndTask("stats", Raised) /\ UNCHANGED drv
    /\ UNCHANGED <<spc, local_pool, bpool, bsize, cargs, sloc, information, ret, nonScrapeVars>>

\* lines 312-350 and 474-477: the investor search (0 when it fails), its
\* finally quits its driver; then the tuple is returned. The driver of line
\* 398 is not quit anywhere in get_company_stats
S_InvSearch ==
    /\ tpc["stats"] = "inv_search"
    /\ drv' = [drv EXCEPT !["investors"] = "quit"]
    /\ \E ok \in BOOLEAN, n \in InvestorCounts :
        EndTask("stats", Returned(
            [competitors |-> sloc.competitors,
             funding |-> sloc.funding,
             company_information_dict |->
                Update(sloc.details,
                       [investors |-> IF ok THEN n ELSE 0, industry |-> sloc.industry])]))
    /\ UNCHANGED <<spc, local_pool, bpool, bsize, cargs, sloc, information, ret, nonScrapeVars>>

\* ---- find_country_of_origin as a task
\* lines 135-145 on the company_info it was submitted with
K_Stage1 ==
    /\ tpc["country"] = "queued"
    /\ LET r == Stage1(cargs, african_countries) IN
        IF r # ""
        THEN EndTask("country", Returned(r))
        ELSE tpc' = [tpc EXCEPT !["country"] = "launch"] /\ UNCHANGED tres
    /\ UNCHANGED <<spc, local_pool, bpool, bsize, drv, cargs, sloc, information, ret, nonScrapeVars>>

\* lines 148-162
K_Launch ==
    /\ tpc["country"] = "launch"
    /\ \E ok \in BOOLEAN :
        IF ok
        THEN /\ drv' = [drv EXCEPT !["country"] = "open"]
             /\ tpc' = [tpc EXCEPT !["country"] = "search"]
             /\ UNCHANGED tres
        ELSE EndTask("country", Raised) /\ UNCHANGED drv
    /\ UNCHANGED <<spc, local_pool, bpool, bsize, cargs, sloc, information, ret, nonScrapeVars>>

\* lines 164-205: the search and stages 2 to 4; the driver is quit after the
\* page is read, or by the handler, which makes the function return ""
K_Search ==
    /\ tpc["country"] = "search"
    /\ drv' = [drv EXCEPT !["country"] = "quit"]
    /\ \/ \E elements \in ResultLists :
            EndTask("country", Returned(
                ResolveFromText(JoinDistinct(elements, {}), african_countries,
                                african_demonyms)))
       \/ EndTask("country", Returned(""))
    /\ UNCHANGED <<spc, local_pool, bpool, bsize, cargs, sloc, information, ret, nonScrapeVars>>

\* ---- the loop over futures.items(), in the order wiki, stats, country
\* lines 89-116 for one key: what the loop body makes of the future's result
collect(key, info, result) ==
    IF result.status = "raised"
    THEN [information |-> info, raised |-> key = "country"]
    ELSE CASE key = "wiki" ->
                [information |-> Update(info,
                    [company |-> result.value.name,
                     company_info |-> result.value.info,
                     description |-> result.value.desc]),
                 raised |-> FALSE]
           [] key = "stats" ->
                [information |-> Update(info,
                    [competitors |-> OrEmpty(result.value.competitors),
                     funding |-> OrEmpty(result.value.funding),
                     company_info_fixed |-> OrEmpty(result.value.company_information_dict)]),
                 raised |-> FALSE]
           [] key = "country" ->
                IF result.value = ""
                THEN [information |-> info, raised |-> TRUE]
                ELSE [information |-> Update(info, [country |-> result.value]),
                      raised |-> FALSE]

\* an end of the call that returns whatever was collected
finish_ReturnAlways(c) == [status |-> "returned", ret |-> c.information]

\* lines 116-123: the exception raised for the country key leaves the function;
\* otherwise the dict is returned unless information.get("country") is falsy
finish(c) ==
    IF c.raised THEN [status |-> "raised", ret |-> EmptyDict]
    ELSE IF ~("country" \in DOMAIN c.information /\ c.information["country"] # "")
         THEN [status |-> "raised", ret |-> EmptyDict]
         ELSE [status |-> "returned", ret |-> c.information]

\* a calling thread that only ever wakes up for a profile task that returned
IS_CollectWiki_OnlyReturned ==
    /\ spc = "wait_wiki"
    /\ tpc["wiki"] = "done"
    /\ tres["wiki"].status = "returned"
    /\ information' = collect("wiki", information, tres["wiki"]).information
    /\ spc' = "wait_stats"
    /\ UNCHANGED <<local_pool, bpool, bsize, tpc, tres, drv, cargs, sloc, ret, nonScrapeVars>>

\* lines 88-98: future.result() of the profile task, once that task is done
IS_CollectWiki ==
    /\ spc = "wait_wiki"
    /\ tpc["wiki"] = "done"
    /\ information' = collect("wiki", information, tres["wiki"]).information
    /\ spc' = "wait_stats"
    /\ UNCHANGED <<local_pool, bpool, bsize, tpc, tres, drv, cargs, sloc, ret, nonScrapeVars>>

IS_CollectStats ==
    /\ spc = "wait_stats"
    /\ tpc["stats"] = "done"
    /\ information' = collect("stats", information, tres["stats"]).information
    /\ spc' = "wait_country"
    /\ UNCHANGED <<local_pool, bpool, bsize, tpc, tres, drv, cargs, sloc, ret, nonScrapeVars>>

\* an end of the call that cleans its own pool up only when it returns
IS_CollectCountry_CleanupOnReturn ==
    /\ spc = "wait_country"
    /\ tpc["country"] = "done"
    /\ LET c == collect("country", information, tres["country"])
           f == finish(c) IN
        /\ information' = c.information
        /\ spc' = f.status
        /\ ret' = f.ret
        /\ bpool' = IF local_pool /\ f.status = "returned" THEN "closed" ELSE bpool
    /\ UNCHANGED <<local_pool, bsize, tpc, tres, drv, cargs, sloc, nonScrapeVars>>

\* the country future, the end of the with block, the check of line 120 and
\* the finally of lines 125-127 (cleanup of a pool the call built itself)
IS_CollectCountry ==
    /\ spc = "wait_country"
    /\ tpc["country"] = "done"
    /\ LET c == collect("country", information, tres["country"])
           f == finish(c) IN
        /\ information' = c.information
        /\ spc' = f.status
        /\ ret' = f.ret
    /\ bpool' = IF local_pool THEN "closed" ELSE bpool
    /\ UNCHANGED <<local_pool, bsize, tpc, tres, drv, cargs, sloc, nonScrapeVars>>

ScrapeNext ==
    \/ IS_Submit
    \/ W_Launch
    \/ W_Search
    \/ W_Parse
    \/ S_Launch
    \/ S_Fetch
    \/ S_Blocks
    \/ S_InvLaunch
    \/ S_InvSearch
    \/ K_Stage1
    \/ K_Launch
    \/ K_Search
    \/ IS_CollectWiki
    \/ IS_CollectStats
    \/ IS_CollectCountry

Spec == ScrapeInit /\ [][ScrapeNext]_vars

\* the worker threads and the calling thread keep running, and every page or
\* search call returns or fails: a step that can be taken is taken
ScrapeLiveSpec == Spec /\ WF_vars(ScrapeNext)

\* the drivers a task creates
DriversOf(k) ==
    CASE k = "wiki" -> {"wiki"}
      [] k = "stats" -> {"stats", "investors"}
      [] k = "country" -> {"country"}

\* C4: every browsing session a retrieval task obtains is given back (closed)
\* by the time the task completes, on its success path and on every failure path.
C4_SessionsGivenBack ==
    \A k \in TaskKeys :
        tpc[k] = "done" => \A d \in DriversOf(k) : drv[d] # "open"

CountryTaskFailed ==
    \/ tres["country"].status = "raised"
    \/ tres["country"].status = "returned" /\ tres["country"].value = ""

Ended == spc \in {"returned", "raised"}

\* C5: when the country task raises or returns an empty result the call ends
\* in failure: it raises and returns no record; every record the call returns
\* has a non-empty country, the one the country task returned.
C5_CountryFailureIsFatal ==
    /\ (Ended /\ CountryTaskFailed) => (spc = "raised" /\ DOMAIN ret = {})
    /\ spc = "returned" =>
        /\ "country" \in DOMAIN ret
        /\ ret["country"] # ""
        /\ tres["country"].status = "returned"
        /\ ret["country"] = tres["country"].value

\* the call raised on an empty country although profile and stats both returned
C5_Witness ==
    /\ spc = "raised"
    /\ tres["country"].status = "returned"
    /\ tres["country"].value = ""
    /\ tres["wiki"].status = "returned"
    /\ tres["stats"].status = "returned"

RecordKeys ==
    {"company", "company_info", "description", "competitors", "funding",
     "company_info_fixed", "country"}

\* C6: when the profile task or the stats task fails and the country task
\* succeeds, the call returns a complete record in which the fields of the
\* failed section are present with their empty defaults.
C6_FailedSectionHasDefaults ==
    spc = "returned" =>
        /\ RecordKeys \subseteq DOMAIN ret
        /\ tres["wiki"].status = "raised" =>
            /\ DOMAIN ret["company_info"] = {}
            /\ ret["description"] = ""
        /\ tres["stats"].status = "raised" =>
            /\ DOMAIN ret["competitors"] = {}
            /\ DOMAIN ret["funding"] = {}
            /\ DOMAIN ret["company_info_fixed"] = {}

\* C7: when profile retrieval has completed before country resolution starts,
\* country resolution runs on the structured fields profile retrieval produced.
C7_SeededByProfileFields ==
    (tpc["country"] = "queued" /\ tres["wiki"].status = "returned") =>
        cargs = tres["wiki"].value.info

\* C11: every call of information_scrapper ends, returning a record or raising,
\* and never both; every submitted task runs to its end, none waiting for a
\* browser of the pool, whatever the size of the pool in use.
C11_CallTerminates ==
    /\ <>Ended
    /\ \A k \in TaskKeys : (tpc[k] = "queued") ~> (tpc[k] = "done")
    /\ [](Ended => ((spc = "returned") <=> (DOMAIN ret # {})))

\* a call handed a pool of one browser returned a record from its three tasks
C11_Witness ==
    /\ spc = "returned"
    /\ ~local_pool
    /\ bsize = 1
    /\ \A k \in TaskKeys : tpc[k] = "done"

\* C13: once get_company_stats has its driver, a failure of the page fetch, of
\* a page block or of the investor-count session costs only that field: the
\* function returns its tuple, with an investors entry, and does not raise.
C13_StatsBlocksIsolated ==
    (tpc["stats"] = "done" /\ drv["stats"] # "none") =>
        /\ tres["stats"].status = "returned"
        /\ "investors" \in DOMAIN tres["stats"].value.company_information_dict

\* C19: a pool the call built itself is cleaned up by the time the call ends,
\* whether it returns or raises, and not before; a pool passed in by the
\* caller is never cleaned up and stays open.
C19_OwnPoolCleanedUp ==
    /\ (local_pool /\ bpool # "none" /\ Ended) => bpool = "closed"
    /\ (local_pool /\ bpool = "closed") => Ended
    /\ ~local_pool => bpool = "open"

\* the call raised (no country) after building its own pool, which is closed
C19_Witness ==
    /\ local_pool
    /\ spc = "raised"
    /\ bsize = DefaultPoolSize
    /\ bpool = "closed"

(***************************************************************************)
(* get_information: GET /information/{company}                             *)
(***************************************************************************)
\* the path parameters requested
Names == {"Andela", " Andela ", "flutterwave", " "}

\* str.strip()
Strip(c) ==
    CASE c = " Andela " -> "Andela"
      [] c = " " -> ""
      [] OTHER -> c

\* the title of the page the profile search resolves to
Title(name) ==
    CASE name = "flutterwave" -> "Flutterwave"
      [] OTHER -> name

\* how get_wiki_link can end for a name
WikiOutcomes(name) ==
    { Raised,
      Returned([name |-> Title(name), info |-> [headquarters |-> "Lagos, Nigeria"],
                desc |-> "a company"]),
      Returned([name |-> name, info |-> EmptyDict, desc |-> ""]) }

\* how get_company_stats can end
StatsOutcomes ==
    { Raised,
      Returned([competitors |-> SampleTable, funding |-> SampleTable,
                company_information_dict |->
                    [employees |-> "1200", investors |-> 12, industry |-> SampleIndustry]]),
      Returned([competitors |-> EmptyDict, funding |-> EmptyDict,
                company_information_dict |-> [investors |-> 0, industry |-> ""]]) }

\* what the browser does in one call of find_country_of_origin
SearchEnvs ==
    {[launch |-> FALSE, search |-> FALSE, elements |-> <<>>],
     [launch |-> TRUE, search |-> FALSE, elements |-> <<>>]}
    \cup {[launch |-> TRUE, search |-> TRUE, elements |-> e] : e \in ResultLists}

\* find_country_of_origin as a whole (lines 130-205)
find_country_of_origin(company_info, countries, demonyms, env) ==
    IF Stage1(company_info, countries) # ""
    THEN [raised |-> FALSE, value |-> Stage1(company_info, countries)]
    ELSE IF ~env.launch THEN [raised |-> TRUE, value |-> ""]
    ELSE IF ~env.search THEN [raised |-> FALSE, value |-> ""]
    ELSE [raised |-> FALSE,
          value |-> ResolveFromText(JoinDistinct(env.elements, {}), countries, demonyms)]

\* the ways find_country_of_origin can end for the company_info of a profile
CountryOutcomes ==
    [i \in {v.info : v \in WikiValues} |->
        {find_country_of_origin(i, african_countries, african_demonyms, e) : e \in SearchEnvs}]

ErrorResponse(code) == [status |-> code, error |-> TRUE, body |-> EmptyDict]
RecordResponse(doc) == [status |-> 200, error |-> FALSE, body |-> doc]

\* a handler that does not test the country for emptiness
fresh_NoEmptyCheck(name, wiki, country, stats) ==
    LET company_name == IF wiki.status = "returned" THEN wiki.value.name ELSE name
        company_info == IF wiki.status = "returned" THEN wiki.value.info ELSE EmptyDict
        desc == IF wiki.status = "returned" THEN wiki.value.desc ELSE ""
    IN IF country.raised \/ stats.status = "raised"
       THEN [error |-> TRUE, data |-> EmptyDict]
       ELSE [error |-> FALSE,
             data |-> [company |-> company_name,
                       company_info_fixed |-> stats.value.company_information_dict,
                       company_info |-> company_info,
                       description |-> desc,
                       country |-> country.value,
                       competitors |-> stats.value.competitors,
                       funding |-> stats.value.funding]]

\* lines 78-124: the profile error is swallowed; a country that raised or is
\* empty, and a stats error, become an HTTPException, which line 121 re-raises
\* and line 138 turns into the error response; otherwise the data dict
fresh(name, wiki, country, stats) ==
    LET company_name == IF wiki.status = "returned" THEN wiki.value.name ELSE name
        company_info == IF wiki.status = "returned" THEN wiki.value.info ELSE EmptyDict
        desc == IF wiki.status = "returned" THEN wiki.value.desc ELSE ""
    IN IF country.raised \/ country.value = "" \/ stats.status = "raised"
       THEN [error |-> TRUE, data |-> EmptyDict]
       ELSE [error |-> FALSE,
             data |-> [company |-> company_name,
                       company_info_fixed |-> stats.value.company_information_dict,
                       company_info |-> company_info,
                       description |-> desc,
                       country |-> country.value,
                       competitors |-> stats.value.competitors,
                       funding |-> stats.value.funding]]

\* lines 126-129: the encoded data with the two timestamps
Stamped(data) == Update(data, [created_at |-> "now", updated_at |-> "now"])

\* cache[key] = doc
CachePut(c, key, doc) ==
    [k \in DOMAIN c \cup {key} |-> IF k = key THEN doc ELSE c[k]]

\* find_one with {"$regex": "^name$", "$options": "i"}: the documents whose
\* company equals the name up to case
Matching(name) == {d \in store : Lower(d.company) = Lower(name)}

MainInit ==
    /\ PoolIdle
    /\ CountryIdle
    /\ ScrapeIdle
    /\ FuncIdle
    /\ cache = EmptyDict
    /\ store = {}
    /\ resp = NoResponse
    /\ mcountry = "not_called"
    /\ nreq = 0
    /\ mreq = ""

\* the whole handler, lines 48-139, for one request
GetInformation(c) ==
    /\ nreq < MaxRequests
    /\ nreq' = nreq + 1
    /\ mreq' = c
    /\ \/ \* lines 49-50
          /\ Strip(c) = ""
          /\ resp' = ErrorResponse(400)
          /\ mcountry' = "not_called"
          /\ UNCHANGED <<cache, store>>
       \/ \* lines 52-54
          /\ Strip(c) # ""
          /\ Strip(c) \in DOMAIN cache
          /\ resp' = RecordResponse(cache[Strip(c)])
          /\ mcountry' = "not_called"
          /\ UNCHANGED <<cache, store>>
       \/ \* lines 58-59 and 138-139: the lookup raises
          /\ Strip(c) # ""
          /\ Strip(c) \notin DOMAIN cache
          /\ resp' = ErrorResponse(500)
          /\ mcountry' = "not_called"
          /\ UNCHANGED <<cache, store>>
       \/ \* lines 61-72: the document is in the collection
          /\ Strip(c) # ""
          /\ Strip(c) \notin DOMAIN cache
          /\ \E existing \in Matching(Strip(c)) :
                /\ cache' = CachePut(cache, Strip(c), existing)
                /\ resp' = RecordResponse(existing)
          /\ mcountry' = "not_called"
          /\ UNCHANGED store
       \/ \* line 75 and 138-139: create_driver raises
          /\ Strip(c) # ""
          /\ Strip(c) \notin DOMAIN cache
          /\ Matching(Strip(c)) = {}
          /\ resp' = ErrorResponse(500)
          /\ mcountry' = "not_called"
          /\ UNCHANGED <<cache, store>>
       \/ \* lines 74-136: a fresh aggregation
          /\ Strip(c) # ""
          /\ Strip(c) \notin DOMAIN cache
          /\ Matching(Strip(c)) = {}
          /\ \E wiki \in WikiOutcomes(Strip(c)), stats \in StatsOutcomes, inserted \in BOOLEAN :
             \E country \in CountryOutcomes[IF wiki.status = "returned"
                                            THEN wiki.value.info ELSE EmptyDict] :
                LET f == fresh(Strip(c), wiki, country, stats) IN
                /\ mcountry' = IF country.raised THEN "raised"
                               ELSE IF country.value = "" THEN "empty" ELSE "found"
                /\ IF f.error
                   THEN /\ resp' = ErrorResponse(500)
                        /\ UNCHANGED <<cache, store>>
                   ELSE IF ~inserted
                   THEN \* insert_one raises: lines 138-139
                        /\ resp' = ErrorResponse(500)
                        /\ UNCHANGED <<cache, store>>
                   ELSE \* lines 131-136: the cache key is the unstripped company
                        /\ store' = store \cup {Stamped(f.data)}
                        /\ cache' = CachePut(cache, c, Stamped(f.data))
                        /\ resp' = RecordResponse(Stamped(f.data))
    /\ UNCHANGED nonMainVars

\* TTLCache(maxsize=100, ttl=3600*5): an entry expires
CacheExpire(k) ==
    /\ k \in DOMAIN cache
    /\ cache' = [x \in DOMAIN cache \ {k} |-> cache[x]]
    /\ UNCHANGED <<store, resp, mcountry, nreq, mreq, nonMainVars>>

MainNext ==
    \/ \E c \in Names : GetInformation(c)
    \/ \E k \in Names : CacheExpire(k)

MainSpec == MainInit /\ [][MainNext]_vars

\* C10: when country resolution raised or returned empty in a request, that
\* request inserts nothing into the collection, writes nothing to the cache
\* and answers with an error payload.
C10_FatalLeavesStoreAndCache ==
    [][(nreq' # nreq /\ mcountry' \in {"raised", "empty"}) =>
            (store' = store /\ cache' = cache /\ resp'.error)]_vars

\* a request that ended on an empty country, after an earlier request had
\* inserted and cached a document
C10_Witness ==
    /\ mcountry = "empty"
    /\ resp.error
    /\ store # {}
    /\ DOMAIN cache # {}

\* C20: a request for X that ends a fresh aggregation with the record leaves
\* that record in the cache under the stripped form of X, where the next
\* request for X looks it up.
C20_FreshRecordCachedUnderStrippedKey ==
    [][(nreq' # nreq /\ mcountry' = "found" /\ ~resp'.error) =>
            /\ Strip(mreq') \in DOMAIN cache'
            /\ cache'[Strip(mreq')] = resp'.body]_vars

(***************************************************************************)
(* The parsing helpers of functions.py, each called once on drawn inputs   *)
(***************************************************************************)
MaxCols == 2
MaxRows == 2
MaxLinks == 3
MaxWords == 3
MaxPhrases == 3
MaxLines == 3

\* an exception of the named kind
RaisedWith(e) == [status |-> "raised", error |-> e]

\* ---- extract_table_data
\* the th texts a thead can hold, and the td texts of a body row
ColumnNames == <<"Name", "Revenue", "Employees", "Founded">>
Headers == {SubSeq(ColumnNames, 1, n) : n \in 1..MaxCols}
Cells == {"Acme", "#12 Acme"}
Rows == SeqsUpTo(Cells, MaxCols)
Tables == [header : Headers, rows : SeqsUpTo(Rows, MaxRows)]

\* lines 271-272: re.sub(r"#\d+", "", data[i]) on the stripped cell text
clean_data(cell) ==
    CASE cell = "#12 Acme" -> " Acme"
      [] OTHER -> cell

\* lines 266-273: the loop over the body rows; data[i] for i in
\* range(len(header)) is an IndexError on a row with fewer cells, and cells
\* past the header are not read
RECURSIVE table_rows(_, _, _)
table_rows(header, rows, table_data) ==
    IF rows = <<>> THEN Returned(table_data)
    ELSE LET data == Head(rows) IN
         IF Len(data) < Len(header) THEN RaisedWith("IndexError")
         ELSE table_rows(header, Tail(rows),
                [h \in DOMAIN table_data |->
                    LET i == CHOOSE j \in DOMAIN header : header[j] = h
                    IN Append(table_data[h], clean_data(data[i]))])

\* lines 254-275
extract_table_data(table) ==
    table_rows(table.header, table.rows, [h \in Range(table.header) |-> <<>>])

\* ---- clean_ddg_urls and extract_link
\* the href values of the result links; "" stands for a missing href (None)
DdgWiki == "//duckduckgo.com/l/?uddg=https%3A%2F%2Fen.wikipedia.org%2Fwiki%2FAndela&rut=1"
GoogleWiki == "/url?q=https://en.wikipedia.org/wiki/Andela&sa=U"
WikiUrl == "https://en.wikipedia.org/wiki/Andela"
GrowjoUrl == "https://growjo.com/company/Andela"
Hrefs == {DdgWiki, GoogleWiki, GrowjoUrl, ""}
LinkTypes == {"en.wikipedia.org", "growjo.com"}

\* lines 56-62: the uddg query parameter, unquoted, when there is one; the
\* url itself otherwise; None for a falsy url
clean_ddg_urls(url) ==
    CASE url = DdgWiki -> WikiUrl
      [] OTHER -> url

\* link_type in href
InHref(link_type, href) ==
    \/ link_type = "en.wikipedia.org" /\ href \in {WikiUrl, GoogleWiki}
    \/ link_type = "growjo.com" /\ href = GrowjoUrl

\* lines 88 and 93: href.split("/url?q=")[-1].split("&")[0]
url_of(href) ==
    CASE href = GoogleWiki -> WikiUrl
      [] OTHER -> href

\* lines 84-96 on the list find_all returned: links[0] and links[1] are read
\* without a length check
extract_link(links, link_type) ==
    IF Len(links) < 1 THEN RaisedWith("IndexError")
    ELSE LET href == clean_ddg_urls(links[1]) IN
         IF href # "" /\ InHref(link_type, href) THEN Returned(url_of(href))
         ELSE IF Len(links) < 2 THEN RaisedWith("IndexError")
         ELSE LET href2 == clean_ddg_urls(links[2]) IN
              IF href2 # "" /\ InHref(link_type, href2) THEN Returned(url_of(href2))
              ELSE RaisedWith("Cannot find a link for the company")

\* ---- extract_most_mentioned_country called on its own
MentionWords == {"nigeria", "Kenya", "kenya", "bank"}
MentionTexts == SeqsUpTo(MentionWords, MaxWords)

\* ---- extract_investor_no
\* the search text as a list of phrases
Phrases == {"has 12 investors", "backed by 8 investors", "8 investors participated",
            "no investors listed"}
PhraseTexts == SeqsUpTo(Phrases, MaxPhrases)

\* line 334: the number the pattern captures in a phrase (-1: no match)
investor_number(phrase) ==
    CASE phrase = "has 12 investors" -> 12
      [] phrase = "backed by 8 investors" -> 8
      [] phrase = "8 investors participated" -> 8
      [] OTHER -> -1

\* lines 338-341: re.findall and the flattening of its groups, in scan order
RECURSIVE findall_numbers(_)
findall_numbers(text) ==
    IF text = <<>> THEN <<>>
    ELSE LET n == investor_number(Head(text)) IN
         (IF n >= 0 THEN <<n>> ELSE <<>>) \o findall_numbers(Tail(text))

\* the keys of Counter(numbers): each number once, in order of first occurrence
RECURSIVE counter_keys(_, _)
counter_keys(numbers, seen) ==
    IF numbers = <<>> THEN <<>>
    ELSE IF Head(numbers) \in seen THEN counter_keys(Tail(numbers), seen)
    ELSE <<Head(numbers)>> \o counter_keys(Tail(numbers), seen \cup {Head(numbers)})

Occurrences(numbers, n) == Cardinality({i \in DOMAIN numbers : numbers[i] = n})

\* a choice of the last key among those with the highest count
most_common_last(numbers) ==
    LET keys == counter_keys(numbers, {})
        best == CHOOSE i \in DOMAIN keys :
                    \A j \in DOMAIN keys :
                        \/ Occurrences(numbers, keys[j]) < Occurrences(numbers, keys[i])
                        \/ Occurrences(numbers, keys[j]) = Occurrences(numbers, keys[i]) /\ j <= i
    IN keys[best]

\* lines 344-346: Counter(numbers).most_common(1)[0][0], the first key among those
\* with the highest count
most_common(numbers) ==
    LET keys == counter_keys(numbers, {})
        best == CHOOSE i \in DOMAIN keys :
                    \A j \in DOMAIN keys :
                        \/ Occurrences(numbers, keys[j]) < Occurrences(numbers, keys[i])
                        \/ Occurrences(numbers, keys[j]) = Occurrences(numbers, keys[i]) /\ i <= j
    IN keys[best]

\* lines 312-350 once the driver exists: when the search of lines 312-328
\* raises, full_text is unbound, the NameError of line 338 is caught at line
\* 347 and line 350 returns 0
extract_investor_no(navigated, text) ==
    IF ~navigated THEN 0
    ELSE LET numbers == findall_numbers(text) IN
         IF numbers # <<>> THEN most_common(numbers) ELSE 0

\* ---- extract_company_details
\* lines 223-226
sections ==
    <<"annual revenue", "venture funding", "revenue per employee", "total funding",
      "current valuation", "employees", "employee count">>

\* the li texts of the page
DetailLines == {"annual revenue $5.2M", "annual revenue $9M", "employees 1200",
                "total funding undisclosed"}
LineLists == SeqsUpTo(DetailLines, MaxLines)

\* line 229: section in li
SectionIn(section, li) ==
    \/ section = "annual revenue" /\ li \in {"annual revenue $5.2M", "annual revenue $9M"}
    \/ section = "employees" /\ li = "employees 1200"
    \/ section = "total funding" /\ li = "total funding undisclosed"

\* lines 230-235: the stripped match of the pattern, or the line itself
\* when the pattern finds nothing
li_value(li) ==
    CASE li = "annual revenue $5.2M" -> "$5.2M"
      [] li = "annual revenue $9M" -> "$9M"
      [] li = "employees 1200" -> "1200"
      [] OTHER -> li

\* lines 228-235 for one section: every line that holds the section assigns
\* dict[section], the loop does not stop at a match
RECURSIVE scan_lines(_, _, _)
scan_lines(section, li_list, assigned) ==
    IF li_list = <<>> THEN assigned
    ELSE scan_lines(section, Tail(li_list),
            IF SectionIn(section, Head(li_list)) THEN <<li_value(Head(li_list))>>
            ELSE assigned)

\* lines 222-237
extract_company_details(li_list) ==
    LET found == {sec \in Range(sections) : scan_lines(sec, li_list, <<>>) # <<>>}
    IN [sec \in found |-> scan_lines(sec, li_list, <<>>)[1]]

\* ---- one call of one helper
FuncInit ==
    /\ PoolIdle
    /\ CountryIdle
    /\ ScrapeIdle
    /\ MainIdle
    /\ fresult = [status |-> "pending"]
    /\ \/ fcall = "extract_table_data" /\ fargs \in [table : Tables]
       \/ fcall = "extract_link"
            /\ fargs \in [res : SeqsUpTo(Hrefs, MaxLinks), link_type : LinkTypes]
       \/ fcall = "extract_most_mentioned_country"
            /\ fargs \in [full_text : MentionTexts, african_countries : AllowLists]
       \/ fcall = "extract_investor_no"
            /\ fargs \in [navigated : BOOLEAN, full_text : PhraseTexts]
       \/ fcall = "extract_company_details" /\ fargs \in [li_list : LineLists]

Call_extract_table_data ==
    /\ fcall = "extract_table_data"
    /\ fresult.status = "pending"
    /\ fresult' = extract_table_data(fargs.table)
    /\ UNCHANGED <<fcall, fargs, nonFuncVars>>

Call_extract_link ==
    /\ fcall = "extract_link"
    /\ fresult.status = "pending"
    /\ fresult' = extract_link(fargs.res, fargs.link_type)
    /\ UNCHANGED <<fcall, fargs, nonFuncVars>>

Call_extract_most_mentioned_country ==
    /\ fcall = "extract_most_mentioned_country"
    /\ fresult.status = "pending"
    /\ fresult' = Returned(extract_most_mentioned_country(fargs.full_text,
                                                          fargs.african_countries))
    /\ UNCHANGED <<fcall, fargs, nonFuncVars>>

Call_extract_investor_no ==
    /\ fcall = "extract_investor_no"
    /\ fresult.status = "pending"
    /\ fresult' = Returned(extract_investor_no(fargs.navigated, fargs.full_text))
    /\ UNCHANGED <<fcall, fargs, nonFuncVars>>

Call_extract_company_details ==
    /\ fcall = "extract_company_details"
    /\ fresult.status = "pending"
    /\ fresult' = Returned(extract_company_details(fargs.li_list))
    /\ UNCHANGED <<fcall, fargs, nonFuncVars>>

FuncNext ==
    \/ Call_extract_table_data
    \/ Call_extract_link
    \/ Call_extract_most_mentioned_country
    \/ Call_extract_investor_no
    \/ Call_extract_company_details

FuncSpec == FuncInit /\ [][FuncNext]_vars

FuncDone(f) == fcall = f /\ fresult.status # "pending"

\* C14: extract_table_data does not raise on a table with a body row that has
\* fewer cells than the header: it returns one list per header column, with
\* one entry for every body row.
C14_ShortRowsNeverRaise ==
    FuncDone("extract_table_data") =>
        /\ fresult.status = "returned"
        /\ DOMAIN fresult.value = Range(fargs.table.header)
        /\ \A h \in DOMAIN fresult.value :
                Len(fresult.value[h]) = Len(fargs.table.rows)

\* C15: for every list of result links, the empty list and the list of one
\* entry included, extract_link returns the de-redirected URL of the first of
\* the first two entries whose URL holds the domain hint, and when there is
\* none it raises the link-not-found error, no other.
C15_LinkOrNotFound ==
    FuncDone("extract_link") =>
        LET links == fargs.res
            hits == {i \in DOMAIN links :
                        /\ i <= 2
                        /\ clean_ddg_urls(links[i]) # ""
                        /\ InHref(fargs.link_type, clean_ddg_urls(links[i]))}
        IN IF hits # {}
           THEN LET first == CHOOSE i \in hits : \A j \in hits : i <= j
                IN fresult = Returned(url_of(clean_ddg_urls(links[first])))
           ELSE /\ fresult.status = "raised"
                /\ fresult.error = "Cannot find a link for the company"

\* C16: extract_most_mentioned_country returns a country of the allow-list
\* that no other allow-listed country exceeds in mentions in the lower-cased
\* text, and returns the empty string exactly when none is mentioned.
C16_MostMentionedOrEmpty ==
    FuncDone("extract_most_mentioned_country") =>
        LET allow == fargs.african_countries
            mentions(c) == CountWord(LowerText(fargs.full_text), Lower(c))
            r == fresult.value
        IN /\ fresult.status = "returned"
           /\ (r = "") <=> (\A c \in Range(allow) : mentions(c) = 0)
           /\ r # "" =>
                /\ r \in Range(allow)
                /\ \A c \in Range(allow) : mentions(c) <= mentions(r)

\* the more mentioned country is returned though it comes later in the list
\* and later in the text, upper-case mentions counted
C16_Witness ==
    /\ FuncDone("extract_most_mentioned_country")
    /\ fargs.african_countries = <<"Nigeria", "Kenya", "Congo">>
    /\ fargs.full_text = <<"nigeria", "Kenya", "kenya">>
    /\ fresult.value = "Kenya"

FirstAt(numbers, n) == CHOOSE i \in DOMAIN numbers :
    numbers[i] = n /\ \A j \in DOMAIN numbers : numbers[j] = n => i <= j

\* C17: extract_investor_no returns the number matched most often in the
\* text, among equally frequent numbers the one met first, and 0 when nothing
\* matches or the search page could not be loaded and read.
C17_MostFrequentInvestorCount ==
    FuncDone("extract_investor_no") =>
        LET numbers == findall_numbers(fargs.full_text)
            r == fresult.value
        IN /\ fresult.status = "returned"
           /\ (~fargs.navigated \/ numbers = <<>>) => r = 0
           /\ (fargs.navigated /\ numbers # <<>>) =>
                /\ r \in Range(numbers)
                /\ \A n \in Range(numbers) :
                    \/ Occurrences(numbers, n) < Occurrences(numbers, r)
                    \/ /\ Occurrences(numbers, n) = Occurrences(numbers, r)
                       /\ FirstAt(numbers, r) <= FirstAt(numbers, n)

\* 12 and 8 are matched once each, 12 first: 12 is returned
C17_Witness ==
    /\ FuncDone("extract_investor_no")
    /\ fargs.navigated
    /\ fargs.full_text = <<"has 12 investors", "no investors listed", "backed by 8 investors">>
    /\ fresult.value = 12

\* C18: for every label, extract_company_details keeps the value of the first
\* line that holds the label; a later line with the same label does not
\* replace it.
C18_FirstMatchWins ==
    FuncDone("extract_company_details") =>
        LET li_list == fargs.li_list
            holding(sec) == {i \in DOMAIN li_list : SectionIn(sec, li_list[i])}
        IN /\ DOMAIN fresult.value = {sec \in Range(sections) : holding(sec) # {}}
           /\ \A sec \in DOMAIN fresult.value :
                LET first == CHOOSE i \in holding(sec) : \A j \in holding(sec) : i <= j
                IN fresult.value[sec] = li_value(li_list[first])

====
